---- MODULE Spec2Model ----
(***************************************************************************)
(* A model of the chatbot_starwars retrieval-augmented pipeline:           *)
(*   01_ingest.py       derive_film_title, extract_scenes,                 *)
(*                      load_and_process_scripts                           *)
(*   02_chunk.py        chunk_documents                                    *)
(*   03_embed_index.py  load_chunks, build_chroma_collection               *)
(*   04_query.py        retrieve, is_context_sufficient, ask, log_query    *)
(*                                                                         *)
(* Similarities and distances are fixed-point numbers in hundredths        *)
(* (0.45 is 45), so that similarity = 1 - dist is 100 - dist; the          *)
(* arithmetic is exact (the rounding of binary floats is not modelled).    *)
(***************************************************************************)
EXTENDS Integers, Sequences, FiniteSets, TLC

VARIABLES
    \* ---- 04_query.py: one interactive session (main / ask) ----
    pc,           \* "idle" (main waits for input), "generating" (ask consumes
                  \* the stream), "crashed" (an exception left ask and main),
                  \* "exited" (quit / exit), "off" (session not modelled)
    asked,        \* number of calls of ask() so far
    query,        \* ask's parameter
    lookup,       \* results["distances"][0] of the last collection.query
    chunks,       \* ask's local: what retrieve returned
    outcome,      \* ask's local: the Gate's second component
    full_answer,  \* ask's local: the fragments collected so far
    shown,        \* what this call of ask has printed
    chatCalls,    \* calls of ollama.chat made by this call of ask
    log,          \* the lines of data/query_log.jsonl
    \* ---- pure functions applied to one drawn input ----
    fnIn,         \* the input
    fnOut,        \* <<>> before the application, <<result>> after it
    \* ---- 03_embed_index.py: runs of the script, and the chroma_db store ----
    chunksFile,   \* the content of data/02_chunks.json
    ipc,          \* "start", "delete", "create", "add", "done", "crashed", "off"
    loaded,       \* main's chunks: what load_chunks returned
    existing,     \* build's local: COLLECTION_NAME in client.list_collections()
    batch_num,    \* build's loop variable
    batches,      \* the ids handed to collection.add by this run, call by call
    builds,       \* runs of the script that are over
    firstBuild,   \* the collection as the first run left it (None before)
    db,           \* the collection named COLLECTION_NAME in chroma_db:
                  \* None when there is none, else Some(the set of its ids)
    \* ---- a 04_query.py process next to the rebuild ----
    qpc,          \* "start", "ready", "crashed", "off"
    observed,     \* what each nearest-neighbour lookup met
    \* ---- 01_ingest.py then 02_chunk.py: one run of each ----
    scripts,      \* the .txt files of scripts/: filename -> what clean_script
                  \* returns of its content
    ppc,          \* "list", "ingest", "chunk", "done", "crashed", "off"
    txt_files,    \* load_and_process_scripts' local: the sorted filenames
    file_num,     \* files load_and_process_scripts has processed
    all_docs,     \* load_and_process_scripts' local
    docsFile,     \* the content of data/01_cleaned_docs.json: chunk_documents'
                  \* parameter docs
    doc_num,      \* documents chunk_documents has processed
    splitter,     \* what splitter.split_text has returned so far, text by
                  \* text (the number of pieces)
    chunk_counter,\* chunk_documents' local
    all_chunks    \* chunk_documents' local, then data/02_chunks.json

qvars == <<pc, asked, query, lookup, chunks, outcome, full_answer, shown,
           chatCalls, log>>
fvars == <<fnIn, fnOut>>
ivars == <<chunksFile, ipc, loaded, existing, batch_num, batches, builds,
           firstBuild, db>>
cvars == <<qpc, observed>>
pvars == <<scripts, ppc, txt_files, file_num, all_docs, docsFile, doc_num,
           splitter, chunk_counter, all_chunks>>
vars == <<qvars, fvars, ivars, cvars, pvars>>

\* Python's None and a present value v, for a field that may be either
None == <<>>
Some(v) == <<v>>

\* ------------------------------------------------------------------------
\* 04_query.py configuration
\* ------------------------------------------------------------------------
TOP_K == 5
MIN_SIMILARITY == 45

\* 03_embed_index.py configuration
BATCH_SIZE == 64
MIN_CHUNK_LENGTH == 10

\* ------------------------------------------------------------------------
\* Bounds of the model
\* ------------------------------------------------------------------------
\* calls of ask() in one session
MaxQueries == 2
\* neighbours the index returns to a query of the session (at most TOP_K)
MaxHits == 2
\* fragments the language model streams for one answer
MaxTokens == 2
\* results in a sequence handed to the Gate
MaxGateLen == 3
\* chunks in data/02_chunks.json (two full batches and a partial one)
MaxChunks == 130
\* runs of 03_embed_index.py
MaxBuilds == 2
\* nearest-neighbour lookups of the query process
MaxLookups == 2
\* lines of a cleaned script
MaxLines == 3
\* .txt files in scripts/
MaxFiles == 2
\* Documents given to chunk_documents
MaxDocs == 3
\* pieces the splitter cuts one text into
MaxSplits == 2

\* cosine distances the index may report, in hundredths
Distances == {0, 20, 55, 56, 70, 130}
\* the distances reported in the session: similarity 0.80 (above the
\* threshold) and 0.30 (below it)
SessionDistances == {20, 70}
\* what the user types at main's prompt
Queries == {"who is luke", "what is the force"}
\* the fragments chunk["message"]["content"] may be
Tokens == {"", "a"}

SeqsUpTo(S, n) == UNION {[1..k -> S] : k \in 0..n}

Min(a, b) == IF a < b THEN a ELSE b

\* ------------------------------------------------------------------------
\* retrieve (lines 92-116): the neighbours in the index's order, each with
\* similarity = 1 - dist, those below MIN_SIMILARITY left out.  A chunk's
\* text stands for results["documents"][0][i]: it is the position i of the
\* neighbour in the index's answer (film and heading come from the same i).
\* ------------------------------------------------------------------------
Similarity(dist) == 100 - dist

\* a comparison turned round
Retained_Inverted(similarity) == similarity <= MIN_SIMILARITY

Retained(similarity) == similarity >= MIN_SIMILARITY

RECURSIVE RetrieveFrom(_, _)
RetrieveFrom(dists, i) ==
    IF i > Len(dists) THEN <<>>
    ELSE LET similarity == Similarity(dists[i])
             rest == RetrieveFrom(dists, i + 1)
         IN  IF Retained(similarity)
             THEN <<[text |-> i, similarity |-> similarity]>> \o rest
             ELSE rest

retrieve(dists) == RetrieveFrom(dists, 1)

\* ------------------------------------------------------------------------
\* is_context_sufficient (lines 119-127)
\* ------------------------------------------------------------------------
\* the threshold compared with <= instead of <
is_context_sufficient_Le(cs) ==
    IF cs = <<>> THEN <<FALSE, "rejected_no_chunks">>
    ELSE IF cs[1].similarity <= MIN_SIMILARITY
         THEN <<FALSE, "rejected_low_similarity">>
         ELSE <<TRUE, "answered">>

is_context_sufficient(cs) ==
    IF cs = <<>> THEN <<FALSE, "rejected_no_chunks">>
    ELSE IF cs[1].similarity < MIN_SIMILARITY
         THEN <<FALSE, "rejected_low_similarity">>
         ELSE <<TRUE, "answered">>

\* ------------------------------------------------------------------------
\* log_query (lines 33-55): the entry appended to the log.  The timestamp is
\* the wall clock and is left out; round(similarity, 4) changes nothing on
\* hundredths.
\* ------------------------------------------------------------------------
LogEntry(q, cs, oc, answer) ==
    [query            |-> q,
     outcome          |-> oc,
     top_similarity   |-> IF cs = <<>> THEN None ELSE Some(cs[1].similarity),
     chunks_retrieved |-> [i \in 1..Len(cs) |-> cs[i].similarity],
     answer           |-> answer]

log_query(lg, q, cs, oc, answer) == Append(lg, LogEntry(q, cs, oc, answer))

\* " ".join instead of "".join
RECURSIVE Join_Spaced(_)
Join_Spaced(toks) ==
    IF toks = <<>> THEN ""
    ELSE IF Tail(toks) = <<>> THEN Head(toks)
         ELSE Head(toks) \o " " \o Join_Spaced(Tail(toks))

\* "".join(full_answer)
RECURSIVE Join(_)
Join(toks) == IF toks = <<>> THEN "" ELSE Head(toks) \o Join(Tail(toks))

Fallback == "The original trilogy screenplays don't contain enough information to answer this."

\* ------------------------------------------------------------------------
\* ask (lines 142-180) inside main's loop (lines 193-207)
\* ------------------------------------------------------------------------
\* ask without the return of line 151: after the refusal is printed and
\* logged, the call goes on to the generation
Ask_NoReturn(q, dists) ==
    /\ pc = "idle"
    /\ asked < MaxQueries
    /\ LET cs   == retrieve(dists)
           gate == is_context_sufficient(cs)
       IN  /\ asked' = asked + 1
           /\ query' = q
           /\ lookup' = dists
           /\ chunks' = cs
           /\ outcome' = gate[2]
           /\ full_answer' = <<>>
           /\ shown' = IF ~gate[1] THEN <<Fallback, "sources", "answer:">>
                                   ELSE <<"sources", "answer:">>
           /\ log' = IF ~gate[1] THEN log_query(log, q, cs, gate[2], None) ELSE log
           /\ chatCalls' = 1
           /\ pc' = "generating"
    /\ UNCHANGED <<fvars, ivars, cvars, pvars>>

\* lines 143-172: retrieve, the Gate, then either the refusal (print, log,
\* return) or the sources are printed and ollama.chat is called
Ask(q, dists) ==
    /\ pc = "idle"
    /\ asked < MaxQueries
    /\ LET cs   == retrieve(dists)
           gate == is_context_sufficient(cs)
       IN  /\ asked' = asked + 1
           /\ query' = q
           /\ lookup' = dists
           /\ chunks' = cs
           /\ outcome' = gate[2]
           /\ full_answer' = <<>>
           /\ IF ~gate[1]
              THEN /\ shown' = <<Fallback>>
                   /\ log' = log_query(log, q, cs, gate[2], None)
                   /\ chatCalls' = 0
                   /\ pc' = "idle"
              ELSE /\ shown' = <<"sources", "answer:">>
                   /\ log' = log
                   /\ chatCalls' = 1
                   /\ pc' = "generating"
    /\ UNCHANGED <<fvars, ivars, cvars, pvars>>

\* lines 173-176: one fragment arrives, is printed and collected
StreamToken(token) ==
    /\ pc = "generating"
    /\ Len(full_answer) < MaxTokens
    /\ full_answer' = Append(full_answer, token)
    /\ shown' = Append(shown, token)
    /\ UNCHANGED <<pc, asked, query, lookup, chunks, outcome, chatCalls, log>>
    /\ UNCHANGED <<fvars, ivars, cvars, pvars>>

\* lines 178-180: the stream ends; the answer is logged and ask returns
StreamEnd ==
    /\ pc = "generating"
    /\ shown' = Append(shown, "\n")
    /\ log' = log_query(log, query, chunks, outcome, Some(Join(full_answer)))
    /\ pc' = "idle"
    /\ UNCHANGED <<asked, query, lookup, chunks, outcome, full_answer, chatCalls>>
    /\ UNCHANGED <<fvars, ivars, cvars, pvars>>

\* lines 172-173: ollama.chat or the iteration of its stream raises (the
\* model is unreachable, the stream breaks, the user interrupts).  Neither
\* ask nor main (whose try covers input() alone) catches it.
StreamRaises ==
    /\ pc = "generating"
    /\ pc' = "crashed"
    /\ UNCHANGED <<asked, query, lookup, chunks, outcome, full_answer, shown,
                   chatCalls, log>>
    /\ UNCHANGED <<fvars, ivars, cvars, pvars>>

\* lines 203-205: quit / exit
Quit ==
    /\ pc = "idle"
    /\ pc' = "exited"
    /\ UNCHANGED <<asked, query, lookup, chunks, outcome, full_answer, shown,
                   chatCalls, log>>
    /\ UNCHANGED <<fvars, ivars, cvars, pvars>>

QueryInit ==
    /\ pc = "idle"
    /\ asked = 0
    /\ query = ""
    /\ lookup = <<>>
    /\ chunks = <<>>
    /\ outcome = ""
    /\ full_answer = <<>>
    /\ shown = <<>>
    /\ chatCalls = 0
    /\ log = <<>>

QueryOff ==
    /\ pc = "off"
    /\ asked = 0
    /\ query = ""
    /\ lookup = <<>>
    /\ chunks = <<>>
    /\ outcome = ""
    /\ full_answer = <<>>
    /\ shown = <<>>
    /\ chatCalls = 0
    /\ log = <<>>

FnOff ==
    /\ fnIn = <<>>
    /\ fnOut = <<>>

IndexOff ==
    /\ chunksFile = <<>>
    /\ ipc = "off"
    /\ loaded = <<>>
    /\ existing = FALSE
    /\ batch_num = 0
    /\ batches = <<>>
    /\ builds = 0
    /\ firstBuild = None
    /\ db = None

ConcOff ==
    /\ qpc = "off"
    /\ observed = <<>>

PipeOff ==
    /\ scripts = <<>>
    /\ ppc = "off"
    /\ txt_files = <<>>
    /\ file_num = 0
    /\ all_docs = <<>>
    /\ docsFile = <<>>
    /\ doc_num = 0
    /\ splitter = <<>>
    /\ chunk_counter = 0
    /\ all_chunks = <<>>

Init ==
    /\ QueryInit
    /\ FnOff
    /\ IndexOff
    /\ ConcOff
    /\ PipeOff

Next ==
    \/ \E q \in Queries, dists \in SeqsUpTo(SessionDistances, Min(MaxHits, TOP_K)) : Ask(q, dists)
    \/ \E token \in Tokens : StreamToken(token)
    \/ StreamEnd
    \/ StreamRaises
    \/ Quit

\* One session of 04_query.py
Spec == Init /\ [][Next]_vars

\* ------------------------------------------------------------------------
\* retrieve applied to one answer of the index: any sequence of at most
\* TOP_K distances (n_results = TOP_K), sorted or not
\* ------------------------------------------------------------------------
RetrieveInit ==
    /\ QueryOff
    /\ PipeOff
    /\ IndexOff
    /\ ConcOff
    /\ fnIn \in SeqsUpTo(Distances, TOP_K)
    /\ fnOut = <<>>

ApplyRetrieve ==
    /\ fnOut = <<>>
    /\ fnOut' = <<retrieve(fnIn)>>
    /\ UNCHANGED <<fnIn, qvars, ivars, cvars, pvars>>

RetrieveNext == ApplyRetrieve

RetrieveSpec == RetrieveInit /\ [][RetrieveNext]_vars

\* ------------------------------------------------------------------------
\* is_context_sufficient applied to one result sequence: any sequence of at
\* most MaxGateLen results, whatever their similarities (0.80, 0.45, 0.44
\* and -0.30), also those retrieve would not return
\* ------------------------------------------------------------------------
GateSimilarities == {Similarity(d) : d \in {20, 55, 56, 130}}

GateInit ==
    /\ QueryOff
    /\ PipeOff
    /\ IndexOff
    /\ ConcOff
    /\ fnIn \in {[i \in 1..Len(ss) |-> [text |-> i, similarity |-> ss[i]]] :
                    ss \in SeqsUpTo(GateSimilarities, MaxGateLen)}
    /\ fnOut = <<>>

ApplyGate ==
    /\ fnOut = <<>>
    /\ fnOut' = <<is_context_sufficient(fnIn)>>
    /\ UNCHANGED <<fnIn, qvars, ivars, cvars, pvars>>

GateNext == ApplyGate

GateSpec == GateInit /\ [][GateNext]_vars

\* ------------------------------------------------------------------------
\* 03_embed_index.py
\* ------------------------------------------------------------------------
\* A chunk of data/02_chunks.json is its chunk_id and the length of its text
\* (all that load_chunks and build_chroma_collection read of the text).
\* 02_chunk.py numbers the chunks 0, 1, 2, ...; with every > 0 each chunk
\* whose id is a multiple of every is one character short of
\* MIN_CHUNK_LENGTH, the others are exactly MIN_CHUNK_LENGTH long.
ChunksFile(n, every) ==
    [i \in 1..n |->
        [chunk_id |-> i - 1,
         text_len |-> IF every > 0 /\ (i - 1) % every = 0
                      THEN MIN_CHUNK_LENGTH - 1 ELSE MIN_CHUNK_LENGTH]]

ShortEvery == {0, 1, 2, 3}

\* line 23: the test of the list comprehension
KeptByFilter(c) == c.text_len >= MIN_CHUNK_LENGTH

\* load_chunks (lines 18-30): the chunks that pass, in the file's order
load_chunks(file) == SelectSeq(file, KeptByFilter)

\* str(chunk_id): the decimal digits of a natural number
RECURSIVE Str(_)
Str(n) == IF n < 10 THEN <<n>> ELSE Str(n \div 10) \o <<n % 10>>

\* the number of batches rounded down: the last, partial batch is lost
total_batches_Floor(n) == n \div BATCH_SIZE

\* line 50
total_batches(n) == (n + BATCH_SIZE - 1) \div BATCH_SIZE

\* line 53: chunks[batch_num * BATCH_SIZE : (batch_num + 1) * BATCH_SIZE]
Batch(cs, b) == SubSeq(cs, b * BATCH_SIZE + 1, Min((b + 1) * BATCH_SIZE, Len(cs)))

\* line 56
BatchIds(batch) == [i \in 1..Len(batch) |-> Str(batch[i].chunk_id)]

Range(f) == {f[i] : i \in DOMAIN f}

\* lines 41-42: the collection after the delete (exists is the test of
\* line 41, taken to hold exactly when the store has a collection of that
\* name)
DeleteExisting(d, exists) == IF exists THEN None ELSE d

\* create_collection moved into an else branch of the test of line 41
CreateCollection_Else(d, exists) == IF exists THEN d ELSE Some({})

\* lines 45-48: the collection after create_collection (which raises when
\* the name is taken)
CreateCollection(d, exists) == Some({})

\* lines 71-76: the collection after collection.add(ids = ...)
CollectionAdd(d, ids) == Some(d[1] \cup Range(ids))

\* __main__ lines 115-117
LoadChunks ==
    /\ ipc = "start"
    /\ loaded' = load_chunks(chunksFile)
    /\ ipc' = "delete"
    /\ UNCHANGED <<chunksFile, existing, batch_num, batches, builds, firstBuild, db>>
    /\ UNCHANGED <<qvars, fvars, cvars, pvars>>

\* build_chroma_collection lines 37-43
ListAndDelete ==
    /\ ipc = "delete"
    /\ existing' = (db # None)
    /\ db' = DeleteExisting(db, db # None)
    /\ batches' = <<>>
    /\ ipc' = "create"
    /\ UNCHANGED <<chunksFile, loaded, batch_num, builds, firstBuild>>
    /\ UNCHANGED <<qvars, fvars, cvars, pvars>>

\* the run ends: normally, or with the exception that left it
RunOver(how, d) ==
    /\ ipc' = how
    /\ builds' = builds + 1
    /\ firstBuild' = IF builds = 0 THEN Some(d) ELSE firstBuild

\* build_chroma_collection lines 45-50
Create ==
    /\ ipc = "create"
    /\ IF db # None
       THEN \* create_collection raises: the name is taken
            /\ RunOver("crashed", db)
            /\ UNCHANGED <<db, batch_num>>
       ELSE /\ db' = CreateCollection(db, existing)
            /\ batch_num' = 0
            /\ ipc' = "add"
            /\ UNCHANGED <<builds, firstBuild>>
    /\ UNCHANGED <<chunksFile, loaded, existing, batches>>
    /\ UNCHANGED <<qvars, fvars, cvars, pvars>>

\* build_chroma_collection lines 52-76: one turn of the loop
AddBatch ==
    /\ ipc = "add"
    /\ batch_num < total_batches(Len(loaded))
    /\ LET ids == BatchIds(Batch(loaded, batch_num))
       IN  IF db = None
           THEN \* collection.add raises: there is no such collection
                /\ RunOver("crashed", db)
                /\ UNCHANGED <<db, batch_num, batches>>
           ELSE /\ db' = CollectionAdd(db, ids)
                /\ batches' = Append(batches, ids)
                /\ batch_num' = batch_num + 1
                /\ UNCHANGED <<ipc, builds, firstBuild>>
    /\ UNCHANGED <<chunksFile, loaded, existing>>
    /\ UNCHANGED <<qvars, fvars, cvars, pvars>>

\* build_chroma_collection line 78
BuildReturns ==
    /\ ipc = "add"
    /\ batch_num >= total_batches(Len(loaded))
    /\ RunOver("done", db)
    /\ UNCHANGED <<chunksFile, loaded, existing, batch_num, batches, db>>
    /\ UNCHANGED <<qvars, fvars, cvars, pvars>>

\* the script is run again on the same data/02_chunks.json
RunAgain ==
    /\ ipc \in {"done", "crashed"}
    /\ builds < MaxBuilds
    /\ ipc' = "start"
    /\ UNCHANGED <<chunksFile, loaded, existing, batch_num, batches, builds, firstBuild, db>>
    /\ UNCHANGED <<qvars, fvars, cvars, pvars>>

\* ids a collection of an earlier corpus version may hold
StaleIds == {Str(0), Str(7), Str(500)}

IndexInit ==
    /\ QueryOff
    /\ PipeOff
    /\ FnOff
    /\ ConcOff
    /\ chunksFile \in {ChunksFile(n, every) : n \in 0..MaxChunks, every \in ShortEvery}
    /\ ipc = "start"
    /\ loaded = <<>>
    /\ existing = FALSE
    /\ batch_num = 0
    /\ batches = <<>>
    /\ builds = 0
    /\ firstBuild = None
    /\ db \in {None, Some(StaleIds)}

IndexNext ==
    \/ LoadChunks
    \/ ListAndDelete
    \/ Create
    \/ AddBatch
    \/ BuildReturns
    \/ RunAgain

\* Runs of 03_embed_index.py, one after the other
IndexSpec == IndexInit /\ [][IndexNext]_vars

\* ------------------------------------------------------------------------
\* A 04_query.py process that runs while 03_embed_index.py runs.  Both open
\* chromadb.PersistentClient on CHROMA_DIR; neither takes a lock.  A lookup
\* is answered from the collection of that name as it is at that moment.
\* ------------------------------------------------------------------------
\* between the rebuild's delete and its last collection.add
InRebuild ==
    \/ ipc = "create"
    \/ ipc = "add" /\ batch_num < total_batches(Len(loaded))

\* load_resources (lines 78-87): get_collection raises when there is none
LoadResources ==
    /\ qpc = "start"
    /\ qpc' = IF db = None THEN "crashed" ELSE "ready"
    /\ UNCHANGED observed
    /\ UNCHANGED <<qvars, fvars, ivars, pvars>>

\* retrieve lines 95-99: collection.query, which raises when there is none
Lookup ==
    /\ qpc = "ready"
    /\ Len(observed) < MaxLookups
    /\ observed' = Append(observed, [rebuilding |-> InRebuild, ids |-> db])
    /\ qpc' = IF db = None THEN "crashed" ELSE "ready"
    /\ UNCHANGED <<qvars, fvars, ivars, pvars>>

ConcInit ==
    /\ QueryOff
    /\ PipeOff
    /\ FnOff
    /\ chunksFile \in {ChunksFile(3, 2), ChunksFile(BATCH_SIZE + 2, 0)}
    /\ ipc = "start"
    /\ loaded = <<>>
    /\ existing = FALSE
    /\ batch_num = 0
    /\ batches = <<>>
    /\ builds = 0
    /\ firstBuild = None
    /\ db \in {None, Some(StaleIds)}
    /\ qpc = "start"
    /\ observed = <<>>

ConcNext ==
    \/ IndexNext
    \/ LoadResources
    \/ Lookup

\* 03_embed_index.py and 04_query.py as two processes on one chroma_db
ConcSpec == ConcInit /\ [][ConcNext]_vars

\* ------------------------------------------------------------------------
\* 01_ingest.py: extract_scenes (lines 47-88).  A text is the sequence of
\* its characters; positions are counted from 1, so that Python's
\* cleaned_text[start:end] is SubSeq(text, start + 1, end).
\* ------------------------------------------------------------------------
IsDigit(c) == c \in {"0", "1", "2", "3", "4", "5", "6", "7", "8", "9"}

\* what \s matches and what str.strip() removes
IsSpace(c) == c \in {" ", "\n", "\t", "\r"}

\* the first position from p on that is not a digit (\d+ is greedy)
DigitsEnd(t, p) ==
    CHOOSE k \in p..(Len(t) + 1) :
        /\ k = Len(t) + 1 \/ ~IsDigit(t[k])
        /\ \A j \in p..(k - 1) : IsDigit(t[j])

\* the first position from p on that is not whitespace (\s+ is greedy)
SpacesEnd(t, p) ==
    CHOOSE k \in p..(Len(t) + 1) :
        /\ k = Len(t) + 1 \/ ~IsSpace(t[k])
        /\ \A j \in p..(k - 1) : IsSpace(t[j])

\* where $ first matches from p on: the next newline, or the end of the text
LineEnd(t, p) ==
    CHOOSE k \in p..(Len(t) + 1) :
        /\ k = Len(t) + 1 \/ t[k] = "\n"
        /\ \A j \in p..(k - 1) : t[j] # "\n"

\* (?m)^
IsLineStart(t, p) == p = 1 \/ t[p - 1] = "\n"

\* (?:INT|EXT|INT\/EXT|I\/E)
Keywords ==
    {<<"I", "N", "T">>, <<"E", "X", "T">>,
     <<"I", "N", "T", "/", "E", "X", "T">>, <<"I", "/", "E">>}

\* ((?:INT|EXT|INT\/EXT|I\/E)[\.\s].+?)$ tried at position k: the position
\* after the match, or 0 when there is no match.  At most one keyword fits,
\* since the character after it must be "." or whitespace.
GroupEnd(t, k) ==
    LET fits == {kw \in Keywords :
                    /\ k + Len(kw) + 1 <= Len(t)
                    /\ SubSeq(t, k, k + Len(kw) - 1) = kw
                    /\ t[k + Len(kw)] = "." \/ IsSpace(t[k + Len(kw)])
                    /\ t[k + Len(kw) + 1] # "\n"}
    IN  IF fits = {} THEN 0
        ELSE LET kw == CHOOSE x \in fits : TRUE
             IN  LineEnd(t, k + Len(kw) + 1)

\* where group 1 starts when the pattern is tried at the line start p: after
\* (?:\d+\s+)? when digits and whitespace are there and the group follows,
\* else at p itself
GroupStart(t, p) ==
    LET d == DigitsEnd(t, p)
        w == SpacesEnd(t, d)
    IN  IF d > p /\ w > d /\ GroupEnd(t, w) # 0 THEN w ELSE p

\* scene_pattern (lines 54-56) matches at position p
MatchesAt(t, p) == IsLineStart(t, p) /\ GroupEnd(t, GroupStart(t, p)) # 0

\* a str.strip() that removes nothing
Strip_Nothing(s) == s

\* str.strip()
Strip(s) ==
    IF \A i \in 1..Len(s) : IsSpace(s[i]) THEN <<>>
    ELSE LET a == CHOOSE k \in 1..Len(s) :
                      ~IsSpace(s[k]) /\ \A j \in 1..(k - 1) : IsSpace(s[j])
             b == CHOOSE k \in 1..Len(s) :
                      ~IsSpace(s[k]) /\ \A j \in (k + 1)..Len(s) : IsSpace(s[j])
         IN  SubSeq(s, a, b)

\* line 59: scene_pattern.finditer from position from on; each header is
\* (m.start(), m.group(1).strip()), and the search goes on after the match
RECURSIVE HeadersFrom(_, _)
HeadersFrom(t, from) ==
    LET hits == {p \in from..Len(t) : MatchesAt(t, p)}
    IN  IF hits = {} THEN <<>>
        ELSE LET p == CHOOSE x \in hits : \A y \in hits : x <= y
                 g == GroupStart(t, p)
                 e == GroupEnd(t, g)
             IN  <<[start |-> p, heading |-> Strip(SubSeq(t, g, e - 1))]>>
                     \o HeadersFrom(t, e)

Headers(t) == HeadersFrom(t, 1)

\* line 77: the length below which a scene is skipped
MIN_SCENE_LENGTH == 30

\* lines 72-86: the scenes from header i on
RECURSIVE ScenesFrom(_, _, _, _)
ScenesFrom(t, film, hs, i) ==
    IF i > Len(hs) THEN <<>>
    ELSE LET end == IF i + 1 <= Len(hs) THEN hs[i + 1].start - 1 ELSE Len(t)
             scene_text == Strip(SubSeq(t, hs[i].start, end))
             rest == ScenesFrom(t, film, hs, i + 1)
         IN  IF Len(scene_text) < MIN_SCENE_LENGTH THEN rest
             ELSE <<[film |-> film, scene_id |-> i, heading |-> hs[i].heading,
                     text |-> scene_text]>> \o rest

FullScript == <<"F", "U", "L", "L", " ", "S", "C", "R", "I", "P", "T">>

\* extract_scenes (lines 47-88)
extract_scenes(t, film) ==
    LET headers == Headers(t)
    IN  IF headers = <<>>
        THEN <<[film |-> film, scene_id |-> 0, heading |-> FullScript, text |-> t]>>
        ELSE ScenesFrom(t, film, headers, 1)

\* "INT. X - DAY" (12 characters)
LineIntXDay ==
    <<"I", "N", "T", ".", " ", "X", " ", "-", " ", "D", "A", "Y">>

\* "EXT. Y - NIGHT" (14 characters)
LineExtYNight ==
    <<"E", "X", "T", ".", " ", "Y", " ", "-", " ", "N", "I", "G",
      "H", "T">>

\* "12 INT/EXT. DEATH STAR - MAIN HANGAR BAY" (40 characters)
LineNumberedHeader ==
    <<"1", "2", " ", "I", "N", "T", "/", "E", "X", "T", ".", " ",
      "D", "E", "A", "T", "H", " ", "S", "T", "A", "R", " ", "-",
      " ", "M", "A", "I", "N", " ", "H", "A", "N", "G", "A", "R",
      " ", "B", "A", "Y">>

\* "Hello" (5 characters)
LineHello ==
    <<"H", "e", "l", "l", "o">>

\* "Luke sees 2 suns." (17 characters)
LineBody ==
    <<"L", "u", "k", "e", " ", "s", "e", "e", "s", " ", "2", " ",
      "s", "u", "n", "s", ".">>

\* the lines a cleaned script is made of ("" is an empty line)
Lines == {LineIntXDay, LineExtYNight, LineNumberedHeader, LineHello,
          LineBody, <<>>}

\* "\n".join(lines)
RECURSIVE JoinLines(_)
JoinLines(ls) ==
    IF ls = <<>> THEN <<>>
    ELSE IF Len(ls) = 1 THEN ls[1]
         ELSE ls[1] \o <<"\n">> \o JoinLines(Tail(ls))

\* What clean_script returns ends with text.strip() (line 44), every line
\* stripped (lines 40-42): no text starts or ends with an empty line.
CleanedTexts ==
    {JoinLines(ls) : ls \in {x \in SeqsUpTo(Lines, MaxLines) :
                                x # <<>> => (x[1] # <<>> /\ x[Len(x)] # <<>>)}}

FilmTitle == "A New Hope"

SegInit ==
    /\ QueryOff
    /\ PipeOff
    /\ IndexOff
    /\ ConcOff
    /\ fnIn \in CleanedTexts
    /\ fnOut = <<>>

ApplyExtractScenes ==
    /\ fnOut = <<>>
    /\ fnOut' = <<extract_scenes(fnIn, FilmTitle)>>
    /\ UNCHANGED <<fnIn, qvars, ivars, cvars, pvars>>

SegNext == ApplyExtractScenes

\* extract_scenes applied to one cleaned script
SegSpec == SegInit /\ [][SegNext]_vars

\* ------------------------------------------------------------------------
\* 01_ingest.py: derive_film_title and load_and_process_scripts
\* ------------------------------------------------------------------------
\* the letters of the filenames and titles, lower case and upper case
LowerCase == <<"a", "d", "e", "h", "i", "j", "n", "o", "p", "t", "w", "x">>
UpperCase == <<"A", "D", "E", "H", "I", "J", "N", "O", "P", "T", "W", "X">>

IsLower(c) == \E k \in 1..Len(LowerCase) : LowerCase[k] = c
IsUpper(c) == \E k \in 1..Len(UpperCase) : UpperCase[k] = c
IsCased(c) == IsLower(c) \/ IsUpper(c)

\* str.upper and str.lower on one character
Upper(c) ==
    IF IsLower(c) THEN UpperCase[CHOOSE k \in 1..Len(LowerCase) : LowerCase[k] = c]
    ELSE c
Lower(c) ==
    IF IsUpper(c) THEN LowerCase[CHOOSE k \in 1..Len(UpperCase) : UpperCase[k] = c]
    ELSE c

\* os.path.splitext(filename)[0]: the name up to its last dot, the whole
\* name when it has no dot or only leading ones
SplitextRoot(name) ==
    LET dots == {k \in 1..Len(name) : name[k] = "."}
        last == CHOOSE k \in dots : \A m \in dots : m <= k
    IN  IF dots = {} \/ (\A k \in 1..(last - 1) : name[k] = ".") THEN name
        ELSE SubSeq(name, 1, last - 1)

\* str.replace("-", " ")
ReplaceHyphens(s) == [k \in 1..Len(s) |-> IF s[k] = "-" THEN " " ELSE s[k]]

\* str.title(): a cased character is upper case after an uncased one (or at
\* the start) and lower case after a cased one
Title(s) ==
    [k \in 1..Len(s) |->
        IF k = 1 \/ ~IsCased(s[k - 1]) THEN Upper(s[k]) ELSE Lower(s[k])]

derive_film_title(filename) == Title(ReplaceHyphens(SplitextRoot(filename)))

\* the characters of the filenames by ascending code point, as sorted()
\* compares them
CodePoints == <<" ", "-", ".">> \o UpperCase \o LowerCase
Ord(c) == CHOOSE k \in 1..Len(CodePoints) : CodePoints[k] = c

\* a < b for two str
StrLess(a, b) ==
    \E k \in 1..(Len(a) + 1) :
        /\ k <= Len(b)
        /\ \A m \in 1..(k - 1) : a[m] = b[m]
        /\ (k = Len(a) + 1 \/ Ord(a[k]) < Ord(b[k]))

\* sorted(S) for a set of filenames
RECURSIVE Sorted(_)
Sorted(S) ==
    IF S = {} THEN <<>>
    ELSE LET least == CHOOSE x \in S : \A y \in S \ {x} : StrLess(x, y)
         IN  <<least>> \o Sorted(S \ {least})

FileANewHopeHyphens ==
    <<"a", "-", "n", "e", "w", "-", "h", "o", "p", "e", ".", "t", "x", "t">>
FileANewHopeSpaces ==
    <<"a", " ", "n", "e", "w", " ", "h", "o", "p", "e", ".", "t", "x", "t">>
FileJedi == <<"J", "E", "D", "I", ".", "t", "x", "t">>
FileNewHope == <<"n", "e", "w", "-", "h", "o", "p", "e", ".", "t", "x", "t">>

\* the names a file of scripts/ can have
Filenames == {FileANewHopeHyphens, FileANewHopeSpaces, FileJedi, FileNewHope}

\* what clean_script returns of a file's content: an empty file, a script
\* without a scene header, one scene, two scenes
ScriptTexts ==
    { <<>>,
      JoinLines(<<LineHello, LineBody>>),
      JoinLines(<<LineNumberedHeader>>),
      JoinLines(<<LineNumberedHeader, LineIntXDay, LineBody>>) }

\* ------------------------------------------------------------------------
\* 02_chunk.py: chunk_documents
\* ------------------------------------------------------------------------
\* splitter.split_text(text) is a call into the langchain library.  The
\* model takes from it that the result is a function of the text (splitter
\* remembers the number of pieces of every text it was given), that the
\* empty text has no piece, and that any other text has between one and
\* MaxSplits pieces.
SplitCounts(text) ==
    IF text \in DOMAIN splitter THEN {splitter[text]}
    ELSE IF text = <<>> THEN {0}
         ELSE 1..MaxSplits

\* the i-th piece (from 1) of a text
Piece(text, i) == [piece |-> i, of |-> text]

\* splits
split_text(text, n) == [i \in 1..n |-> Piece(text, i)]

\* lines 36-46 for one doc: the chunks appended to all_chunks when
\* chunk_counter is counter before the inner loop
Emit_IndexAsId(doc, splits, counter) ==
    [i \in 1..Len(splits) |->
        [chunk_id     |-> i - 1,
         film         |-> doc.film,
         scene_id     |-> doc.scene_id,
         heading      |-> doc.heading,
         chunk_index  |-> i - 1,
         total_chunks |-> Len(splits),
         text         |-> splits[i]]]
Emit(doc, splits, counter) ==
    [i \in 1..Len(splits) |->
        [chunk_id     |-> counter + (i - 1),
         film         |-> doc.film,
         scene_id     |-> doc.scene_id,
         heading      |-> doc.heading,
         chunk_index  |-> i - 1,
         total_chunks |-> Len(splits),
         text         |-> splits[i]]]

\* 01_ingest.py lines 93-97: the sorted .txt files, FileNotFoundError when
\* there is none
ListScripts ==
    /\ ppc = "list"
    /\ txt_files' = Sorted(DOMAIN scripts)
    /\ ppc' = IF DOMAIN scripts = {} THEN "crashed" ELSE "ingest"
    /\ UNCHANGED <<scripts, file_num, all_docs, docsFile, doc_num, splitter,
                   chunk_counter, all_chunks>>
    /\ UNCHANGED <<qvars, fvars, ivars, cvars>>

\* 01_ingest.py lines 101-116: one turn of the loop over txt_files
ProcessScript ==
    /\ ppc = "ingest"
    /\ file_num < Len(txt_files)
    /\ LET filename   == txt_files[file_num + 1]
           film_title == derive_film_title(filename)
           cleaned    == scripts[filename]
           scenes     == extract_scenes(cleaned, film_title)
       IN  all_docs' = all_docs \o scenes
    /\ file_num' = file_num + 1
    /\ UNCHANGED <<scripts, ppc, txt_files, docsFile, doc_num, splitter,
                   chunk_counter, all_chunks>>
    /\ UNCHANGED <<qvars, fvars, ivars, cvars>>

\* 01_ingest.py lines 118 and 127-134, then 02_chunk.py lines 73-74: the
\* documents go through data/01_cleaned_docs.json
SaveDocs ==
    /\ ppc = "ingest"
    /\ file_num = Len(txt_files)
    /\ docsFile' = all_docs
    /\ ppc' = "chunk"
    /\ UNCHANGED <<scripts, txt_files, file_num, all_docs, doc_num, splitter,
                   chunk_counter, all_chunks>>
    /\ UNCHANGED <<qvars, fvars, ivars, cvars>>

\* 02_chunk.py lines 32-46: one turn of the loop over docs
ChunkDoc ==
    /\ ppc = "chunk"
    /\ doc_num < Len(docsFile)
    /\ LET doc == docsFile[doc_num + 1]
           text == doc.text
       IN  \E n \in SplitCounts(text) :
               LET splits == split_text(text, n)
               IN  /\ splitter' = [t \in DOMAIN splitter \cup {text} |->
                                      IF t = text THEN n ELSE splitter[t]]
                   /\ all_chunks' = all_chunks \o Emit(doc, splits, chunk_counter)
                   /\ chunk_counter' = chunk_counter + Len(splits)
    /\ doc_num' = doc_num + 1
    /\ UNCHANGED <<scripts, ppc, txt_files, file_num, all_docs, docsFile>>
    /\ UNCHANGED <<qvars, fvars, ivars, cvars>>

\* 02_chunk.py line 48
ChunkReturns ==
    /\ ppc = "chunk"
    /\ doc_num = Len(docsFile)
    /\ ppc' = "done"
    /\ UNCHANGED <<scripts, txt_files, file_num, all_docs, docsFile, doc_num,
                   splitter, chunk_counter, all_chunks>>
    /\ UNCHANGED <<qvars, fvars, ivars, cvars>>

\* the Documents given to chunk_documents: any sequence of at most MaxDocs,
\* scenes with an empty text among them
DocTexts == {<<>>, LineHello, LineBody}
Documents ==
    [film : {FilmTitle}, scene_id : {1, 2}, heading : {FullScript},
     text : DocTexts]

ChunkInit ==
    /\ QueryOff
    /\ FnOff
    /\ IndexOff
    /\ ConcOff
    /\ scripts = <<>>
    /\ ppc = "chunk"
    /\ txt_files = <<>>
    /\ file_num = 0
    /\ all_docs = <<>>
    /\ docsFile \in SeqsUpTo(Documents, MaxDocs)
    /\ doc_num = 0
    /\ splitter = <<>>
    /\ chunk_counter = 0
    /\ all_chunks = <<>>

ChunkNext == ChunkDoc \/ ChunkReturns

\* chunk_documents applied to one sequence of Documents
ChunkSpec == ChunkInit /\ [][ChunkNext]_vars

\* scripts/ holds at most MaxFiles .txt files, each with one of the contents
PipeInit ==
    /\ QueryOff
    /\ FnOff
    /\ IndexOff
    /\ ConcOff
    /\ scripts \in UNION {[F -> ScriptTexts] :
                            F \in {G \in SUBSET Filenames : Cardinality(G) <= MaxFiles}}
    /\ ppc = "list"
    /\ txt_files = <<>>
    /\ file_num = 0
    /\ all_docs = <<>>
    /\ docsFile = <<>>
    /\ doc_num = 0
    /\ splitter = <<>>
    /\ chunk_counter = 0
    /\ all_chunks = <<>>

PipeNext == ListScripts \/ ProcessScript \/ SaveDocs \/ ChunkDoc \/ ChunkReturns

\* 01_ingest.py then 02_chunk.py on one scripts/ directory
PipeSpec == PipeInit /\ [][PipeNext]_vars

\* ========================================================================
\* The claims
\* ========================================================================
Last(s) == s[Len(s)]

AskReturned == pc = "idle" /\ asked > 0

\* C1: every query passed to ask(), whatever its outcome (answered, rejected,
\* or a generation that fails or is interrupted mid-stream), has exactly one
\* entry in the query log once ask is over: never zero, never more than one.
C1_ExactlyOneEntryPerQuery ==
    pc \in {"idle", "crashed", "exited"} => Len(log) = asked

\* C2: the Gate returns rejected_no_chunks iff the sequence is empty,
\* rejected_low_similarity iff it is non-empty and its first similarity is
\* below MIN_SIMILARITY, and (True, answered) in every other case.
C2_GateCases ==
    fnOut # <<>> =>
        LET r     == fnOut[1]
            empty == Len(fnIn) = 0
            low   == Len(fnIn) > 0 /\ fnIn[1].similarity < MIN_SIMILARITY
        IN  /\ (r[2] = "rejected_no_chunks") <=> empty
            /\ (r[2] = "rejected_low_similarity") <=> low
            /\ (~empty /\ ~low) => r = <<TRUE, "answered">>
            /\ r[1] <=> (r[2] = "answered")

\* the Gate has rejected a non-empty sequence for its top similarity
C2_Witness ==
    /\ fnOut = <<(<<FALSE, "rejected_low_similarity">>)>>
    /\ Len(fnIn) > 1

\* C3: a query whose best neighbour is below the threshold (top similarity
\* 0.30, threshold 0.45) ends with outcome rejected_low_similarity in its log
\* entry, and not with the rejected_no_chunks of an empty index answer.
C3_LowSimilarityLogged ==
    (/\ AskReturned
     /\ lookup # <<>>
     /\ \A i \in 1..Len(lookup) : 100 - lookup[i] < MIN_SIMILARITY)
        => /\ Len(log) > 0
           /\ Last(log).outcome = "rejected_low_similarity"

IsSorted(dists) == \A i, j \in 1..Len(dists) : i < j => dists[i] <= dists[j]

\* C4: retrieve never returns a result whose similarity (1 - distance) is
\* below MIN_SIMILARITY; the retained results are results of the index, in
\* the index's order; so the output is similarity-descending whenever the
\* index answers in increasing-distance order.
C4_RetrieveThresholdAndOrder ==
    fnOut # <<>> =>
        LET out == fnOut[1]
        IN  /\ \A i \in 1..Len(out) :
                /\ out[i].similarity >= MIN_SIMILARITY
                /\ out[i].text \in 1..Len(fnIn)
                /\ out[i].similarity = 100 - fnIn[out[i].text]
            /\ \A i, j \in 1..Len(out) : i < j => out[i].text < out[j].text
            /\ IsSorted(fnIn) =>
                \A i, j \in 1..Len(out) : i < j => out[i].similarity >= out[j].similarity

\* retrieve has dropped some neighbours of a sorted answer and kept two of
\* different similarity, one of them on the threshold
C4_Witness ==
    /\ fnOut # <<>>
    /\ IsSorted(fnIn)
    /\ Len(fnOut[1]) >= 2
    /\ Len(fnOut[1]) < Len(fnIn)
    /\ fnOut[1][1].similarity > fnOut[1][2].similarity
    /\ \E i \in 1..Len(fnOut[1]) : fnOut[1][i].similarity = MIN_SIMILARITY

\* C5: whenever the Gate reports the context insufficient, the generation
\* call is not made for that query, the fixed refusal is what is shown, and
\* the query's log entry has answer null.
C5_RefusalWithoutGeneration ==
    (asked > 0 /\ outcome # "answered") =>
        /\ chatCalls = 0
        /\ pc # "generating"
        /\ shown = <<Fallback>>
        /\ Len(log) > 0
        /\ Last(log).query = query
        /\ Last(log).outcome = outcome
        /\ Last(log).answer = None

\* a second query of the session has been refused
C5_Witness ==
    /\ AskReturned
    /\ asked = 2
    /\ outcome = "rejected_no_chunks"
    /\ lookup # <<>>
    /\ Len(log) = 2

\* C6 as claimed: every log entry with outcome answered has a non-null and
\* non-empty answer, for every token stream.
C6_AnsweredNonEmpty ==
    \A i \in 1..Len(log) :
        log[i].outcome = "answered" =>
            log[i].answer # None /\ log[i].answer # Some("")

\* C6 as amended: every log entry with outcome answered has a non-null
\* answer, the concatenation of the fragments streamed; it is empty exactly
\* when the stream yields no fragment or empty fragments only.
C6_AnsweredIsJoinOfFragments ==
    /\ \A i \in 1..Len(log) :
        log[i].outcome = "answered" => log[i].answer # None
    /\ (AskReturned /\ outcome = "answered") =>
        /\ Len(log) > 0
        /\ Last(log).outcome = "answered"
        /\ Last(log).answer # None
        /\ (Last(log).answer = Some("")) <=>
               (\A k \in 1..Len(full_answer) : full_answer[k] = "")

\* an answer made of empty fragments only has been logged
C6_Witness ==
    /\ AskReturned
    /\ outcome = "answered"
    /\ Len(full_answer) = 2
    /\ Last(log).answer = Some("")

\* the concatenation of the returned Documents' texts
RECURSIVE ConcatTexts(_)
ConcatTexts(docs) ==
    IF docs = <<>> THEN <<>> ELSE Head(docs).text \o ConcatTexts(Tail(docs))

HeaderDetected == fnOut # <<>> /\ Headers(fnIn) # <<>>

\* C7 as claimed: for every cleaned document with at least one detected
\* header, concatenating the texts of the returned Documents in order
\* reconstructs the cleaned text exactly.
C7_ConcatReconstructs ==
    HeaderDetected => ConcatTexts(fnOut[1]) = fnIn

\* C7 as amended: for every cleaned document with at least one detected
\* header, each returned text is a piece of the cleaned text that starts at
\* a line start, has no whitespace at its ends and is at least 30 characters
\* long; the concatenation is no longer than the cleaned text, and it is the
\* cleaned text exactly when the document has one header, at its very start,
\* and at least 30 characters.
C7_TrimmedLongSpans ==
    HeaderDetected =>
        LET out == fnOut[1]
        IN  /\ \A i \in 1..Len(out) :
                LET x == out[i].text
                IN  /\ Len(x) >= 30
                    /\ ~IsSpace(x[1]) /\ ~IsSpace(x[Len(x)])
                    /\ \E p \in 1..Len(fnIn) :
                        /\ p = 1 \/ fnIn[p - 1] = "\n"
                        /\ p + Len(x) - 1 <= Len(fnIn)
                        /\ SubSeq(fnIn, p, p + Len(x) - 1) = x
            /\ \A i, j \in 1..Len(out) : i < j => out[i].scene_id < out[j].scene_id
            /\ Len(ConcatTexts(out)) <= Len(fnIn)
            /\ (ConcatTexts(out) = fnIn) <=>
                   /\ Len(Headers(fnIn)) = 1
                   /\ Headers(fnIn)[1].start = 1
                   /\ Len(fnIn) >= 30

\* a script with text before its first header, whose first scene is skipped
\* as too short and whose second scene is returned
C7_Witness ==
    /\ fnOut # <<>>
    /\ Len(Headers(fnIn)) = 2
    /\ Headers(fnIn)[1].start > 1
    /\ Len(fnOut[1]) = 1
    /\ fnOut[1][1].scene_id = 2


\* the ids of the chunks of the file that are long enough
SurvivorIds == {Str(chunksFile[i].chunk_id) :
                   i \in {k \in DOMAIN chunksFile : chunksFile[k].text_len >= MIN_CHUNK_LENGTH}}

\* C8: the rebuild and a query never run concurrently against the collection:
\* in every interleaving no lookup executes between the rebuild's delete and
\* its last batch add, so a lookup meets neither a missing nor an empty nor a
\* partly filled collection (it meets the old one or the new one, whole).
C8_NoLookupDuringRebuild ==
    \A i \in 1..Len(observed) :
        /\ ~observed[i].rebuilding
        /\ observed[i].ids \in {Some(StaleIds), Some(SurvivorIds)}

\* C9: running build_chroma_collection twice in sequence on the same chunks,
\* whether or not the collection existed before, leaves a collection of the
\* same size and the same id set as running it once.
C9_RebuildIdempotent ==
    (builds >= 2 /\ ipc \in {"done", "crashed"}) =>
        /\ Some(db) = firstBuild
        /\ db # None
        /\ firstBuild[1] # None
        /\ Cardinality(db[1]) = Cardinality(firstBuild[1][1])

\* the second run has deleted the collection of the first and filled its own
\* with more than one batch
C9_Witness ==
    /\ builds = 2
    /\ ipc = "done"
    /\ existing
    /\ Len(batches) > 1
    /\ firstBuild # Some(Some(StaleIds))

\* how many times id was handed to collection.add in this run
TimesAdded(id) ==
    Cardinality({bk \in {<<b, k>> : b \in 1..Len(batches), k \in 1..BATCH_SIZE} :
                    bk[2] <= Len(batches[bk[1]]) /\ batches[bk[1]][bk[2]] = id})

\* C10: after load_chunks and build_chroma_collection, the collection size is
\* the number of chunks of the file whose text is at least MIN_CHUNK_LENGTH
\* long: each of them was added in exactly one batch, whatever the chunk
\* count, and no filtered chunk was added.
C10_SizeIsSurvivorCount ==
    ipc = "done" =>
        /\ db # None
        /\ Cardinality(db[1]) =
               Cardinality({k \in DOMAIN chunksFile : chunksFile[k].text_len >= MIN_CHUNK_LENGTH})
        /\ db[1] = SurvivorIds
        /\ \A k \in DOMAIN chunksFile :
               TimesAdded(Str(chunksFile[k].chunk_id)) =
                   IF chunksFile[k].text_len >= MIN_CHUNK_LENGTH THEN 1 ELSE 0

\* a run has filtered chunks out and indexed exactly one full batch
C10_Witness ==
    /\ ipc = "done"
    /\ Len(loaded) = BATCH_SIZE
    /\ Len(chunksFile) > Len(loaded)
    /\ Len(batches) = 1
    /\ Cardinality(db[1]) = BATCH_SIZE

\* C11: whatever Documents chunk_documents is given, the chunk_id values of
\* the chunks it emits are strictly increasing in emission order, hence no
\* two chunks share one, also where a scene between them gave no chunk.
C11_ChunkIdsUniqueIncreasing ==
    \A i, j \in 1..Len(all_chunks) :
        /\ i < j => all_chunks[i].chunk_id < all_chunks[j].chunk_id
        /\ i # j => all_chunks[i].chunk_id # all_chunks[j].chunk_id

\* chunk_documents has returned; a scene that gave no chunk lies between two
\* scenes that gave chunks, one scene gave several
C11_Witness ==
    /\ ppc = "done"
    /\ \E d \in 2..(Len(docsFile) - 1) :
           /\ docsFile[d].text = <<>>
           /\ docsFile[d - 1].text # <<>>
           /\ docsFile[d + 1].text # <<>>
    /\ \E i \in 1..Len(all_chunks) : all_chunks[i].total_chunks > 1

\* the chunks of the output that carry the same (film, scene_id) as chunk i
SamePair(i) ==
    {j \in 1..Len(all_chunks) :
        /\ all_chunks[j].film = all_chunks[i].film
        /\ all_chunks[j].scene_id = all_chunks[i].scene_id}

\* C12: in the output of 01_ingest.py then 02_chunk.py, the chunks that
\* share one (film, scene_id) all carry the same total_chunks, and it is the
\* number of chunks emitted with that pair, whatever the files of scripts/
\* are called.
C12_TotalChunksIsPairCount ==
    ppc = "done" =>
        \A i \in 1..Len(all_chunks) :
            /\ \A j \in SamePair(i) :
                   all_chunks[j].total_chunks = all_chunks[i].total_chunks
            /\ all_chunks[i].total_chunks = Cardinality(SamePair(i))

====
